---- MODULE Spec2Model ----
(***************************************************************************)
(* A model of the diffable crate: GraphBuilder (src/src/graph_builder.rs), *)
(* OperationQueue (src/src/operation.rs) and Graph (src/src/graph.rs),     *)
(* instantiated with the Float tensor and the operations of                *)
(* src/examples/basic.rs.                                                  *)
(*                                                                         *)
(* Node(i) is the natural number i; nodes[i + 1] is its NodeData, because   *)
(* TLA+ sequences start at 1.  Option<T> is a sequence of length 0 (None)  *)
(* or 1 (Some).  A panic leaves the state as it was when the panic was     *)
(* raised and is recorded, with its message, in `last`.                    *)
(*                                                                         *)
(* `graph` is the Graph that build() last returned for the builder as it   *)
(* now stands (build takes &self, so the builder lives on): a later call   *)
(* to create_input, create_weights or create_result_of_operation ends the  *)
(* following of that Graph, and the next build() returns a fresh one.      *)
(***************************************************************************)
EXTENDS Integers, Sequences, FiniteSets, TLC

VARIABLES nodes, roots, inputs, weights, ids, graph, last

builder == <<nodes, roots, inputs, weights, ids>>
vars == <<nodes, roots, inputs, weights, ids, graph, last>>

(***************************************************************************)
(* Bounds of the exploration.                                              *)
(***************************************************************************)
MaxNodes == 4
MaxRunNodes == 3

(***************************************************************************)
(* Option<T>.                                                              *)
(***************************************************************************)
None == <<>>
Some(x) == <<x>>
IsSome(o) == Len(o) = 1
Unwrap(o) == o[1]

Range(s) == {s[i] : i \in 1..Len(s)}

\* A `.rev()` that yields the elements in their original order.
ReverseKeepsOrder(s) == s

RECURSIVE Reverse(_)
Reverse(s) == IF s = <<>> THEN <<>> ELSE Append(Reverse(Tail(s)), Head(s))

(***************************************************************************)
(* The identifiers the caller registers leaves under, and the operations   *)
(* it supplies.  Add, Sub, Mul, Abs and Inc are those of examples/basic.rs;*)
(* Lit stands for a caller-supplied operation whose output_tensor accepts  *)
(* the empty input list (DiffableOperation.output_tensor is any function). *)
(***************************************************************************)
Ids == {"a", "x"}
Operation == {"Mul", "Abs", "Lit"}

\* ModelOfTensor of the Float tensor is the unit type.
Unit == "()"

\* The largest number of inputs an operation of basic.rs takes
\* (`inputs.len() != 2` in add, sub and mul).
MaxArity == 2

Arity(op) ==
    CASE op \in {"Add", "Sub", "Mul"} -> 2
      [] op \in {"Abs", "Inc"} -> 1
      [] op = "Lit" -> 0

\* An output_tensor whose abs::is_valid accepts any number of inputs.
output_tensor_abs_unchecked(op, input_vals) ==
    IF Len(input_vals) # Arity(op) /\ op # "Abs"
    THEN [ok |-> FALSE, vals |-> Unit, msg |-> "Invalid number of arguments!"]
    ELSE [ok |-> TRUE, vals |-> Unit, msg |-> ""]

\* Operation::output_tensor: Ok(descriptor) or Err(message).
output_tensor(op, input_vals) ==
    IF Len(input_vals) # Arity(op)
    THEN [ok |-> FALSE, vals |-> Unit, msg |-> "Invalid number of arguments!"]
    ELSE [ok |-> TRUE, vals |-> Unit, msg |-> ""]

(***************************************************************************)
(* NodeData::new; `own` is assigned by create_node.                        *)
(***************************************************************************)
NodeData(id, operation, vals, requires_grad, parents) ==
    [id |-> id, vals |-> vals, requires_grad |-> requires_grad,
     parent_operation |-> operation, parent_nodes |-> parents]

\* impl Index<Node> for GraphBuilder
At(node) == nodes[node + 1]
InBounds(node) == node + 1 \in 1..Len(nodes)

\* The outcome of the last call: its name, "ok" or the panic message, and
\* the value it returned when that is a scalar.
Ok(call) == [call |-> call, result |-> "ok", value |-> None]
Returned(call, v) == [call |-> call, result |-> "ok", value |-> Some(v)]
Panic(call, msg) == [call |-> call, result |-> msg, value |-> None]

(***************************************************************************)
(* GraphBuilder::create_node.  IdTaken is the failure of its assertion     *)
(* `assert!(self.ids.insert(..))`, which panics before anything else is    *)
(* touched (HashSet::insert changes nothing when it returns false);        *)
(* create_node is the rest of the function.                                *)
(***************************************************************************)
\* ids.insert taken to succeed always.
IdNeverTaken(data) == FALSE

IdTaken(data) == IsSome(data.id) /\ Unwrap(data.id) \in ids

\* create_node without `self.roots.remove(parent)`.
create_node_keeping_parents(data) ==
    LET node == Len(nodes) IN
    /\ ids' = IF IsSome(data.id) THEN ids \cup {Unwrap(data.id)} ELSE ids
    /\ roots' = roots \cup {node}
    /\ nodes' = Append(nodes, data @@ [own |-> node])

create_node(data) ==
    LET node == Len(nodes) IN
    /\ ids' = IF IsSome(data.id) THEN ids \cup {Unwrap(data.id)} ELSE ids
    /\ roots' = (roots \ Range(data.parent_nodes)) \cup {node}
    /\ nodes' = Append(nodes, data @@ [own |-> node])

IdPanic == "assertion failed: self.ids.insert(id.to_string())"

create_input(id) ==
    LET data == NodeData(Some(id), None, Unit, FALSE, <<>>) IN
    /\ IF IdTaken(data)
       THEN /\ last' = Panic("create_input", IdPanic)
            /\ UNCHANGED builder
       ELSE /\ create_node(data)
            /\ inputs' = inputs \cup {Len(nodes)}
            /\ last' = Ok("create_input")
            /\ UNCHANGED weights
    /\ graph' = None

create_weights(id) ==
    LET data == NodeData(Some(id), None, Unit, TRUE, <<>>) IN
    /\ IF IdTaken(data)
       THEN /\ last' = Panic("create_weights", IdPanic)
            /\ UNCHANGED builder
       ELSE /\ create_node(data)
            /\ weights' = weights \cup {Len(nodes)}
            /\ last' = Ok("create_weights")
            /\ UNCHANGED inputs
    /\ graph' = None

\* The alias check left out.
AllDistinctUnchecked(s) == TRUE

\* inputs.iter().all(|node| set.insert(node))
AllDistinct(s) == \A i, j \in 1..Len(s) : s[i] = s[j] => i = j

create_result_of_operation(operation, ins) ==
    /\ IF ~AllDistinct(ins)
       THEN /\ last' = Panic("create_result_of_operation",
                             "An operation will alias nodes on backprop!")
            /\ UNCHANGED builder
       ELSE IF \E i \in 1..Len(ins) : ~InBounds(ins[i])
       THEN /\ last' = Panic("create_result_of_operation", "index out of bounds")
            /\ UNCHANGED builder
       ELSE LET input_vals == [i \in 1..Len(ins) |-> At(ins[i]).vals]
                out == output_tensor(operation, input_vals)
            IN  IF out.ok
                THEN /\ create_node(NodeData(None, Some(operation), out.vals, TRUE, ins))
                     /\ last' = Ok("create_result_of_operation")
                     /\ UNCHANGED <<inputs, weights>>
                ELSE /\ last' = Panic("create_result_of_operation", out.msg)
                     /\ UNCHANGED builder
    /\ graph' = None

(***************************************************************************)
(* The input lists a caller can pass: Node handles of this builder and one *)
(* handle past its end (a Node of another builder), up to MaxArity long.   *)
(***************************************************************************)
Handles == 0..Len(nodes)
InputLists == UNION {[1..n -> Handles] : n \in 0..MaxArity}

(***************************************************************************)
(* The Float tensor of examples/basic.rs, over the integers.               *)
(***************************************************************************)
\* Tensor::new
New(desc, requires_grad) ==
    [val |-> 0, grad |-> IF requires_grad THEN Some(0) ELSE None]

\* Tensor::get_scalar
get_scalar(t) == Some(t.val)

\* A copy of the whole tensor, gradient included.
copy_whole_tensor(src, dest) == src

\* Tensor::copy_values_into
copy_values_into(src, dest) == [dest EXCEPT !.val = src.val]

\* A zero_grad that leaves the gradient as it is.
zero_grad_skipped(t) == t

\* Tensor::zero_grad
zero_grad(t) == IF IsSome(t.grad) THEN [t EXCEPT !.grad = Some(0)] ELSE t

\* Tensor::set_grad_to_unit (the unwrap panics on a tensor without gradient)
set_grad_to_unit(t) == [t EXCEPT !.grad = Some(1)]

(***************************************************************************)
(* GraphBuilder::set_of_leaves and set_of_edges.                           *)
(***************************************************************************)
\* The frontier seeded with the inputs only.
set_of_leaves_inputs_only == inputs

set_of_leaves == inputs \cup weights

set_of_edges ==
    UNION {{<<src, nodes[i].own>> : src \in Range(nodes[i].parent_nodes)} :
           i \in 1..Len(nodes)}

(***************************************************************************)
(* GraphBuilder::topological_sort_of_nodes.  `leaves.iter().next()` takes  *)
(* whichever element the HashSet yields first, so the sweep may remove any *)
(* frontier node: KahnRuns is the set of the runs the loop can make, each  *)
(* with the order it produced and the edges it left.                       *)
(***************************************************************************)
\* The loop without its `any` test: a destination joins the frontier as soon
\* as one of its incoming edges is removed.
RECURSIVE RemoveEdgesEager(_, _, _)
RemoveEdgesEager(edges_from_n, leaves, edges) ==
    IF edges_from_n = {} THEN [leaves |-> leaves, set_of_edges |-> edges]
    ELSE LET edge == CHOOSE e \in edges_from_n : TRUE IN
         RemoveEdgesEager(edges_from_n \ {edge}, leaves \cup {edge[2]}, edges \ {edge})

\* The `for edge in edges_from_n` loop.  The edges leaving n have pairwise
\* different destinations, so the order the loop takes them in has no effect.
RECURSIVE RemoveEdges(_, _, _)
RemoveEdges(edges_from_n, leaves, edges) ==
    IF edges_from_n = {} THEN [leaves |-> leaves, set_of_edges |-> edges]
    ELSE LET edge == CHOOSE e \in edges_from_n : TRUE
             rest == edges \ {edge}
             m == edge[2]
         IN  RemoveEdges(edges_from_n \ {edge},
                         IF ~\E e \in rest : e[2] = m THEN leaves \cup {m} ELSE leaves,
                         rest)

RECURSIVE KahnRuns(_, _, _)
KahnRuns(leaves, sorted, edges) ==
    IF leaves = {} THEN {[sorted |-> sorted, set_of_edges |-> edges]}
    ELSE UNION {LET edges_from_n == {e \in edges : e[1] = n}
                    after == RemoveEdges(edges_from_n, leaves \ {n}, edges)
                IN  KahnRuns(after.leaves, Append(sorted, n), after.set_of_edges) :
                n \in leaves}

topological_sort_of_nodes == KahnRuns(set_of_leaves, <<>>, set_of_edges)

(***************************************************************************)
(* OperationQueue::push, GraphBuilder::build_forward and build_backward.   *)
(* An entry carries the operation whose forward (backprop) function it     *)
(* holds.                                                                  *)
(***************************************************************************)
push(queue, operation, ins, output) ==
    Append(queue, [operation |-> operation, inputs |-> ins, output |-> output])

RECURSIVE PushAll(_, _)
PushAll(queue, sorted_nodes) ==
    IF sorted_nodes = <<>> THEN queue
    ELSE LET data == At(Head(sorted_nodes)) IN
         PushAll(IF IsSome(data.parent_operation)
                 THEN push(queue, Unwrap(data.parent_operation),
                           data.parent_nodes, Head(sorted_nodes))
                 ELSE queue,
                 Tail(sorted_nodes))

build_forward(sorted_nodes) == PushAll(<<>>, sorted_nodes)

\* build_backward iterating `sorted_nodes` without `.rev()`.
build_backward_unreversed(sorted_nodes) == PushAll(<<>>, sorted_nodes)

build_backward(sorted_nodes) == PushAll(<<>>, Reverse(sorted_nodes))

(***************************************************************************)
(* GraphBuilder::build.                                                    *)
(***************************************************************************)
NameTable(set) ==
    [id \in {Unwrap(At(n).id) : n \in set} |->
        CHOOSE n \in set : Unwrap(At(n).id) = id]

\* assert_eq!(self.roots.len(), 1, ..)
SingleOutput == Cardinality(roots) = 1

\* assert!(self[root].requires_grad, ..)
RootRequiresGrad(root) == At(root).requires_grad

\* The weight assertion left out.
RootIsNeverWeight(root) == FALSE

\* assert!(!self.weights.contains(&root), ..)
RootIsWeight(root) == root \in weights

build ==
    /\ UNCHANGED builder
    /\ IF ~SingleOutput
       THEN /\ last' = Panic("build", "Graph must have a single output!")
            /\ UNCHANGED graph
       ELSE LET root == CHOOSE r \in roots : TRUE IN
            IF ~RootRequiresGrad(root)
            THEN /\ last' = Panic("build", "Output cannot be an input!")
                 /\ UNCHANGED graph
            ELSE IF RootIsWeight(root)
            THEN /\ last' = Panic("build", "Can't output trainable weights!")
                 /\ UNCHANGED graph
            ELSE \E run \in topological_sort_of_nodes :
                 IF run.set_of_edges # {}
                 THEN /\ last' = Panic("build", "GraphBuilder contains a cycle!")
                      /\ UNCHANGED graph
                 ELSE /\ graph' = Some(
                            [nodes |-> [i \in 1..Len(nodes) |->
                                          New(nodes[i].vals, nodes[i].requires_grad)],
                             root |-> root,
                             inputs |-> NameTable(inputs),
                             weights |-> NameTable(weights),
                             forward |-> build_forward(run.sorted),
                             backward |-> build_backward(run.sorted)])
                      /\ last' = Ok("build")

(***************************************************************************)
(* The operations of examples/basic.rs on Float tensors.                   *)
(***************************************************************************)
\* Inc(val) as network() uses it: inc(pred, 1.0)
IncVal == 1

AbsOf(v) == IF v < 0 THEN 0 - v ELSE v

\* abs::backprop's factor
Sign(v) == IF v > 0 THEN 1 ELSE IF v = 0 THEN 0 ELSE 0 - 1

\* A forward in which mul writes `output.val += ..` in place of `output.val = ..`.
forward_of_accumulating(op, ins, output) ==
    CASE op = "Add" -> [output EXCEPT !.val = ins[1].val + ins[2].val]
      [] op = "Sub" -> [output EXCEPT !.val = ins[1].val - ins[2].val]
      [] op = "Mul" -> [output EXCEPT !.val = @ + ins[1].val * ins[2].val]
      [] op = "Abs" -> [output EXCEPT !.val = AbsOf(ins[1].val)]
      [] op = "Inc" -> [output EXCEPT !.val = AbsOf(ins[1].val) + IncVal]
      [] op = "Lit" -> [output EXCEPT !.val = 1]

\* Operation::forward: the output tensor after the call
forward_of(op, ins, output) ==
    CASE op = "Add" -> [output EXCEPT !.val = ins[1].val + ins[2].val]
      [] op = "Sub" -> [output EXCEPT !.val = ins[1].val - ins[2].val]
      [] op = "Mul" -> [output EXCEPT !.val = ins[1].val * ins[2].val]
      [] op = "Abs" -> [output EXCEPT !.val = AbsOf(ins[1].val)]
      [] op = "Inc" -> [output EXCEPT !.val = AbsOf(ins[1].val) + IncVal]
      [] op = "Lit" -> [output EXCEPT !.val = 1]

\* `*grd = d` in place of `*grd += d`.
AssignGrad(t, d) ==
    IF IsSome(t.grad) THEN [t EXCEPT !.grad = Some(d)] ELSE t

\* `if let Some(grd) = input.grad.as_mut() { *grd += d }`
AddGrad(t, d) ==
    IF IsSome(t.grad) THEN [t EXCEPT !.grad = Some(Unwrap(t.grad) + d)] ELSE t

\* A backward in which mul scales the gradient by the input's own value.
backprop_of_own_value(op, output, ins) ==
    LET output_grad == Unwrap(output.grad) IN
    CASE op = "Add" -> [i \in 1..Len(ins) |-> AddGrad(ins[i], output_grad)]
      [] op = "Sub" -> [i \in 1..Len(ins) |->
                          AddGrad(ins[i], (IF i = 1 THEN 1 ELSE 0 - 1) * output_grad)]
      [] op = "Mul" -> [i \in 1..Len(ins) |->
                          AddGrad(ins[i], output_grad * ins[i].val)]
      [] op = "Abs" -> [i \in 1..Len(ins) |->
                          AddGrad(ins[i], output_grad * Sign(ins[i].val))]
      [] op = "Inc" -> [i \in 1..Len(ins) |-> AddGrad(ins[i], output_grad)]
      [] op = "Lit" -> ins

\* Operation::backward: the input tensors after the call
backprop_of(op, output, ins) ==
    LET output_grad == Unwrap(output.grad) IN
    CASE op = "Add" -> [i \in 1..Len(ins) |-> AddGrad(ins[i], output_grad)]
      [] op = "Sub" -> [i \in 1..Len(ins) |->
                          AddGrad(ins[i], (IF i = 1 THEN 1 ELSE 0 - 1) * output_grad)]
      [] op = "Mul" -> [i \in 1..Len(ins) |->
                          AddGrad(ins[i], output_grad * ins[3 - i].val)]
      [] op = "Abs" -> [i \in 1..Len(ins) |->
                          AddGrad(ins[i], output_grad * Sign(ins[i].val))]
      [] op = "Inc" -> [i \in 1..Len(ins) |-> AddGrad(ins[i], output_grad)]
      [] op = "Lit" -> ins

(***************************************************************************)
(* RefCell's borrow flag of each slot during one queue entry: 0 when the   *)
(* slot is not borrowed, k > 0 under k shared borrows, -1 under an         *)
(* exclusive borrow.  Every borrow of an entry is dropped at the end of    *)
(* its loop iteration.                                                     *)
(***************************************************************************)
Unborrowed(slots) == [i \in 1..Len(slots) |-> 0]

BorrowMutError == "already borrowed: BorrowMutError"
BorrowError == "already mutably borrowed: BorrowError"

\* RefCell::borrow
borrow(flags, node) ==
    IF flags[node + 1] >= 0
    THEN [ok |-> TRUE, flags |-> [flags EXCEPT ![node + 1] = @ + 1], msg |-> ""]
    ELSE [ok |-> FALSE, flags |-> flags, msg |-> BorrowError]

\* RefCell::borrow_mut
borrow_mut(flags, node) ==
    IF flags[node + 1] = 0
    THEN [ok |-> TRUE, flags |-> [flags EXCEPT ![node + 1] = 0 - 1], msg |-> ""]
    ELSE [ok |-> FALSE, flags |-> flags, msg |-> BorrowMutError]

\* inputs.iter().map(|node| graph[node.0].borrow()).collect()
RECURSIVE BorrowEach(_, _)
BorrowEach(flags, ins) ==
    IF ins = <<>> THEN [ok |-> TRUE, flags |-> flags, msg |-> ""]
    ELSE LET b == borrow(flags, Head(ins)) IN
         IF b.ok THEN BorrowEach(b.flags, Tail(ins)) ELSE b

\* inputs.iter().map(|node| graph[node.0].borrow_mut()).collect()
RECURSIVE BorrowMutEach(_, _)
BorrowMutEach(flags, ins) ==
    IF ins = <<>> THEN [ok |-> TRUE, flags |-> flags, msg |-> ""]
    ELSE LET b == borrow_mut(flags, Head(ins)) IN
         IF b.ok THEN BorrowMutEach(b.flags, Tail(ins)) ELSE b

(***************************************************************************)
(* OperationQueue<ForwardFunc>::execute_on and                             *)
(* OperationQueue<BackwardFunc>::execute_on: the slots after the replay    *)
(* and "ok", or the slots at the panic and its message.                    *)
(***************************************************************************)
RECURSIVE execute_forward(_, _)
execute_forward(queue, slots) ==
    IF queue = <<>> THEN [nodes |-> slots, result |-> "ok"]
    ELSE LET e == Head(queue)
             ins == BorrowEach(Unborrowed(slots), e.inputs)
             output == IF ins.ok THEN borrow_mut(ins.flags, e.output) ELSE ins
         IN  IF ~output.ok THEN [nodes |-> slots, result |-> output.msg]
             ELSE execute_forward(
                    Tail(queue),
                    [slots EXCEPT ![e.output + 1] =
                        forward_of(e.operation,
                                   [i \in 1..Len(e.inputs) |-> slots[e.inputs[i] + 1]],
                                   @)])

RECURSIVE execute_backward(_, _)
execute_backward(queue, slots) ==
    IF queue = <<>> THEN [nodes |-> slots, result |-> "ok"]
    ELSE LET e == Head(queue)
             ins == BorrowMutEach(Unborrowed(slots), e.inputs)
             output == IF ins.ok THEN borrow(ins.flags, e.output) ELSE ins
         IN  IF ~output.ok THEN [nodes |-> slots, result |-> output.msg]
             ELSE LET after == backprop_of(
                                 e.operation, slots[e.output + 1],
                                 [i \in 1..Len(e.inputs) |-> slots[e.inputs[i] + 1]])
                  IN  execute_backward(
                        Tail(queue),
                        [s \in 1..Len(slots) |->
                            IF \E i \in 1..Len(e.inputs) : e.inputs[i] + 1 = s
                            THEN after[CHOOSE i \in 1..Len(e.inputs) : e.inputs[i] + 1 = s]
                            ELSE slots[s]])

(***************************************************************************)
(* Graph: forward, backward, store_input, store_weights, zero_grads.       *)
(***************************************************************************)
G == Unwrap(graph)

forward ==
    /\ IsSome(graph)
    /\ LET run == execute_forward(G.forward, G.nodes) IN
       /\ graph' = Some([G EXCEPT !.nodes = run.nodes])
       /\ last' = IF run.result = "ok"
                  THEN Returned("forward", Unwrap(get_scalar(run.nodes[G.root + 1])))
                  ELSE Panic("forward", run.result)
    /\ UNCHANGED builder

backward ==
    /\ IsSome(graph)
    /\ LET seeded == [G.nodes EXCEPT ![G.root + 1] = set_grad_to_unit(@)]
           run == execute_backward(G.backward, seeded)
       IN  /\ graph' = Some([G EXCEPT !.nodes = run.nodes])
           /\ last' = IF run.result = "ok" THEN Ok("backward")
                      ELSE Panic("backward", run.result)
    /\ UNCHANGED builder

\* Graph::store_values
store_values(node, data) ==
    graph' = Some([G EXCEPT !.nodes[node + 1] = copy_values_into(data, @)])

KeyPanic == "key not found"

store_input(id, data) ==
    /\ IsSome(graph)
    /\ IF id \in DOMAIN G.inputs
       THEN /\ store_values(G.inputs[id], data)
            /\ last' = Ok("store_input")
       ELSE /\ last' = Panic("store_input", KeyPanic)
            /\ UNCHANGED graph
    /\ UNCHANGED builder

store_weights(id, data) ==
    /\ IsSome(graph)
    /\ IF id \in DOMAIN G.weights
       THEN /\ store_values(G.weights[id], data)
            /\ last' = Ok("store_weights")
       ELSE /\ last' = Panic("store_weights", KeyPanic)
            /\ UNCHANGED graph
    /\ UNCHANGED builder

zero_grads ==
    /\ IsSome(graph)
    /\ graph' = Some([G EXCEPT !.nodes = [i \in 1..Len(G.nodes) |-> zero_grad(G.nodes[i])]])
    /\ last' = Ok("zero_grads")
    /\ UNCHANGED builder

(***************************************************************************)
(* The tensors a caller stores: Float::from(v), which has no gradient.     *)
(***************************************************************************)
Values == {0 - 2}
From(v) == [val |-> v, grad |-> None]

\* The gradients the exploration follows.
GradCap == 10
WithinCap(g) ==
    \A i \in 1..Len(g.nodes) :
        IsSome(g.nodes[i].grad) =>
            /\ Unwrap(g.nodes[i].grad) <= GradCap
            /\ Unwrap(g.nodes[i].grad) >= 0 - GradCap

Init ==
    /\ nodes = <<>>
    /\ roots = {}
    /\ inputs = {}
    /\ weights = {}
    /\ ids = {}
    /\ graph = None
    /\ last = Ok("default")

Next ==
    \/ /\ Len(nodes) < MaxNodes
       /\ \E id \in Ids : create_input(id)
    \/ /\ Len(nodes) < MaxNodes
       /\ \E id \in Ids : create_weights(id)
    \/ /\ Len(nodes) < MaxNodes
       /\ \E op \in Operation, ins \in InputLists : create_result_of_operation(op, ins)
    \/ build
    \/ forward
    \/ backward /\ WithinCap(Unwrap(graph'))

(***************************************************************************)
(* NextRun follows the values and gradients of the graphs of builders of   *)
(* up to MaxRunNodes nodes.                                                *)
(***************************************************************************)
NextRun ==
    \/ /\ Len(nodes) < MaxRunNodes
       /\ \E id \in Ids : create_input(id)
    \/ /\ Len(nodes) < MaxRunNodes
       /\ \E id \in Ids : create_weights(id)
    \/ /\ Len(nodes) < MaxRunNodes
       /\ \E op \in Operation, ins \in InputLists : create_result_of_operation(op, ins)
    \/ build
    \/ forward
    \/ backward /\ WithinCap(Unwrap(graph'))
    \/ zero_grads
    \/ \E id \in Ids, v \in Values : store_input(id, From(v))
    \/ \E id \in Ids, v \in Values : store_weights(id, From(v))

Spec == Init /\ [][Next]_vars

SpecRun == Init /\ [][NextRun]_vars

(***************************************************************************)
(* A caller's program: the calls it makes on the builder, in order, then   *)
(* build(), then the loop of main(): the weights are stored, and each      *)
(* round stores the inputs, calls forward(), zero_grads() and backward().  *)
(***************************************************************************)
WeightsCall(id) == [kind |-> "weights", id |-> id, op |-> "Lit", ins |-> <<>>]
InputCall(id) == [kind |-> "input", id |-> id, op |-> "Lit", ins |-> <<>>]
OperationCall(op, ins) == [kind |-> "operation", id |-> "", op |-> op, ins |-> ins]

\* The call the program makes next on the builder, if any.
Pending(program) ==
    IF graph = None /\ Len(nodes) < Len(program)
    THEN {program[Len(nodes) + 1]}
    ELSE {}

Finished(program) == graph = None /\ Len(nodes) = Len(program)

\* network() of examples/basic.rs up to `pred`, then `pred - y` as output:
\* the graph (a * x + b) - y.
LineProgram ==
    << WeightsCall("a"), WeightsCall("b"), InputCall("x"), InputCall("y"),
       OperationCall("Mul", <<0, 2>>),
       OperationCall("Add", <<4, 1>>),
       OperationCall("Sub", <<5, 3>>) >>

LineValues(id) ==
    CASE id = "a" -> {1, 0 - 2}
      [] id = "b" -> {0, 1}
      [] id = "x" -> {0, 3}
      [] id = "y" -> {2, 7}

NextLine ==
    \/ \E c \in Pending(LineProgram) : c.kind = "weights" /\ create_weights(c.id)
    \/ \E c \in Pending(LineProgram) : c.kind = "input" /\ create_input(c.id)
    \/ \E c \in Pending(LineProgram) :
          c.kind = "operation" /\ create_result_of_operation(c.op, c.ins)
    \/ Finished(LineProgram) /\ build
    \/ /\ last.call \in {"build", "store_weights"}
       /\ \E id \in {"a", "b"} : \E v \in LineValues(id) : store_weights(id, From(v))
    \/ /\ last.call \in {"store_weights", "store_input", "backward"}
       /\ \E id \in {"x", "y"} : \E v \in LineValues(id) : store_input(id, From(v))
    \/ last.call = "store_input" /\ forward
    \/ last.call = "forward" /\ zero_grads
    \/ last.call = "zero_grads" /\ backward

SpecLine == Init /\ [][NextLine]_vars

\* A weight used along two paths of different lengths:
\* a1 = abs(w), a2 = w * x, output a1 - a2.
DiamondProgram ==
    << WeightsCall("a"), InputCall("x"),
       OperationCall("Abs", <<0>>),
       OperationCall("Mul", <<0, 1>>),
       OperationCall("Sub", <<2, 3>>) >>

DiamondValues(id) ==
    CASE id = "a" -> {0 - 2, 1, 3}
      [] id = "x" -> {0 - 1, 0, 2}

NextDiamond ==
    \/ \E c \in Pending(DiamondProgram) : c.kind = "weights" /\ create_weights(c.id)
    \/ \E c \in Pending(DiamondProgram) : c.kind = "input" /\ create_input(c.id)
    \/ \E c \in Pending(DiamondProgram) :
          c.kind = "operation" /\ create_result_of_operation(c.op, c.ins)
    \/ Finished(DiamondProgram) /\ build
    \/ /\ last.call \in {"build", "store_weights"}
       /\ \E v \in DiamondValues("a") : store_weights("a", From(v))
    \/ /\ last.call \in {"store_weights", "store_input", "backward"}
       /\ \E v \in DiamondValues("x") : store_input("x", From(v))
    \/ last.call = "store_input" /\ forward
    \/ last.call = "forward" /\ zero_grads
    \/ last.call = "zero_grads" /\ backward

SpecDiamond == Init /\ [][NextDiamond]_vars

(***************************************************************************)
(* Properties of the compiled queues.                                      *)
(***************************************************************************)
IsOperationResult(node) == IsSome(At(node).parent_operation)

\* C1: the forward queue of every built graph is a topological order: each
\* input of an entry that is an operation result is the output of an earlier
\* entry, and the output of an entry is an input of no entry up to it.
ForwardIsTopologicalOrder ==
    IsSome(graph) =>
        \A i \in 1..Len(G.forward) :
            /\ \A k \in 1..Len(G.forward[i].inputs) :
                  IsOperationResult(G.forward[i].inputs[k]) =>
                      \E j \in 1..(i - 1) : G.forward[j].output = G.forward[i].inputs[k]
            /\ \A j \in 1..i : G.forward[i].output \notin Range(G.forward[j].inputs)

\* A built graph whose last entry reads the outputs of two earlier entries.
ForwardOrderWitness ==
    /\ IsSome(graph)
    /\ last = Ok("build")
    /\ Len(G.forward) = 3
    /\ \A k \in 1..Len(G.forward[3].inputs) : IsOperationResult(G.forward[3].inputs[k])
    /\ Len(G.forward[3].inputs) = 2

\* C2: the backward queue of every built graph is the forward queue
\* reversed: same length n, and entry i of the backward queue has the
\* inputs, the output and the operation of entry n + 1 - i of the forward one.
BackwardIsForwardReversed ==
    IsSome(graph) =>
        /\ Len(G.backward) = Len(G.forward)
        /\ \A i \in 1..Len(G.backward) :
              LET f == G.forward[Len(G.forward) + 1 - i] IN
              /\ G.backward[i].inputs = f.inputs
              /\ G.backward[i].output = f.output
              /\ G.backward[i].operation = f.operation

\* A built graph of three entries whose first and last operations differ,
\* so that the queue and its reverse differ.
BackwardReversedWitness ==
    /\ IsSome(graph)
    /\ Len(G.forward) = 3
    /\ G.forward[1].operation # G.forward[3].operation

\* C3: in the backward queue, which backward() replays front to back, every
\* entry that lists an operation-result node n among its inputs stands
\* before the entry whose output is n.
ConsumersBeforeProducer ==
    IsSome(graph) =>
        \A j \in 1..Len(G.backward) : \A i \in 1..Len(G.backward) :
            G.backward[j].output \in Range(G.backward[i].inputs) => i < j

\* backward() has replayed a queue in which one operation result feeds two
\* consumers.
TwoConsumersReplayed ==
    /\ IsSome(graph)
    /\ last = Ok("backward")
    /\ \E j \in 1..Len(G.backward) :
          Cardinality({i \in 1..Len(G.backward) :
                          G.backward[j].output \in Range(G.backward[i].inputs)}) = 2

(***************************************************************************)
(* Properties of build().                                                  *)
(***************************************************************************)
\* The nodes a path of edges leads to from the leaf set (inputs and weights).
RECURSIVE ReachableFrom(_)
ReachableFrom(set) ==
    LET more == {i \in 0..(Len(nodes) - 1) :
                    \E p \in Range(nodes[i + 1].parent_nodes) : p \in set}
    IN  IF more \subseteq set THEN set ELSE ReachableFrom(set \cup more)

ReachableFromLeaves == ReachableFrom(inputs \cup weights)

BuildSucceeded == last.result = "ok" /\ IsSome(graph)

BadRootRejected ==
    (/\ last.call = "build"
     /\ \/ Cardinality(roots) # 1
        \/ \E r \in roots : ~nodes[r + 1].requires_grad
        \/ \E r \in roots : r \in weights) =>
        (last.result # "ok" /\ graph = None)

\* build() has failed on a builder whose one root is a weight.
WeightRootRejected ==
    /\ last = Panic("build", "Can't output trainable weights!")
    /\ Cardinality(roots) = 1
    /\ roots \subseteq weights

(***************************************************************************)
(* Properties of the builder's calls.  A call "fails, changing nothing"    *)
(* when no step of it ends otherwise than in the panic with the builder    *)
(* as it was.                                                              *)
(***************************************************************************)
HasDuplicate(s) == \E i, j \in 1..Len(s) : i # j /\ s[i] = s[j]

AliasPanic == Panic("create_result_of_operation",
                    "An operation will alias nodes on backprop!")

\* C6: create_result_of_operation fails whenever its input list holds one
\* node at two positions, and then adds no node and leaves nodes, roots,
\* inputs, weights and ids as they were.
DuplicateInputRejected ==
    \A op \in Operation, ins \in InputLists :
        HasDuplicate(ins) =>
            ~ENABLED (/\ create_result_of_operation(op, ins)
                      /\ ~(last' = AliasPanic /\ builder' = builder))

\* The call has just failed on a duplicated input of a builder with nodes.
DuplicateInputWitness ==
    /\ last = AliasPanic
    /\ Len(nodes) >= 2

\* The identifiers of the leaves registered so far.
RegisteredIds == {Unwrap(nodes[i].id) : i \in {j \in 1..Len(nodes) : IsSome(nodes[j].id)}}

LeafIdsDistinct ==
    \A i, j \in 1..Len(nodes) :
        (IsSome(nodes[i].id) /\ IsSome(nodes[j].id) /\ nodes[i].id = nodes[j].id) => i = j

\* C7: create_input and create_weights fail on an identifier that an
\* earlier create_input or create_weights registered, leaving nodes, roots,
\* inputs, weights and ids as they were; the identifiers of the leaves are
\* pairwise distinct in every state.
RegisteredIdRejected ==
    /\ \A id \in RegisteredIds :
          /\ ~ENABLED (/\ create_input(id)
                       /\ ~(last' = Panic("create_input", IdPanic) /\ builder' = builder))
          /\ ~ENABLED (/\ create_weights(id)
                       /\ ~(last' = Panic("create_weights", IdPanic) /\ builder' = builder))
    /\ LeafIdsDistinct

\* create_weights has just failed on the identifier of an input.
WeightIdOfInputRejected ==
    /\ last = Panic("create_weights", IdPanic)
    /\ \E n \in inputs : nodes[n + 1].id \in {Some(id) : id \in Ids}
    /\ weights = {}

\* C8: when the operation's validation rejects the input descriptors (their
\* number is not the operation's arity), create_result_of_operation panics
\* with the validation's message and leaves nodes, roots, inputs, weights
\* and ids as they were.
InvalidArityRejected ==
    \A op \in Operation, ins \in InputLists :
        (/\ ~HasDuplicate(ins)
         /\ \A i \in 1..Len(ins) : ins[i] < Len(nodes)
         /\ Len(ins) # Arity(op)) =>
            ~ENABLED (/\ create_result_of_operation(op, ins)
                      /\ ~(/\ last' = Panic("create_result_of_operation",
                                            "Invalid number of arguments!")
                           /\ builder' = builder))

\* The call has just failed in validation on a builder with two nodes.
InvalidArityWitness ==
    /\ last = Panic("create_result_of_operation", "Invalid number of arguments!")
    /\ Len(nodes) >= 2

(***************************************************************************)
(* Properties of the replay.                                               *)
(***************************************************************************)
EntryNodes(e) == Append(e.inputs, e.output)

\* C9: in every entry of both queues the output and the inputs are pairwise
\* distinct, and neither forward() nor backward() ever fails a borrow.
NoBorrowConflict ==
    /\ IsSome(graph) =>
          /\ \A i \in 1..Len(G.forward) : ~HasDuplicate(EntryNodes(G.forward[i]))
          /\ \A i \in 1..Len(G.backward) : ~HasDuplicate(EntryNodes(G.backward[i]))
    /\ last.result \notin {BorrowError, BorrowMutError}

\* backward() has replayed a queue with an entry of two inputs.
TwoInputEntryReplayed ==
    /\ IsSome(graph)
    /\ last = Ok("backward")
    /\ \E i \in 1..Len(G.backward) : Len(G.backward[i].inputs) = 2

\* The factor of the output's gradient that operation `op` contributes to its
\* k-th input, given the input tensors.
Derivative(op, k, ins) ==
    CASE op = "Add" -> 1
      [] op = "Sub" -> IF k = 1 THEN 1 ELSE 0 - 1
      [] op = "Mul" -> ins[3 - k].val
      [] op = "Abs" -> Sign(ins[k].val)
      [] op = "Inc" -> 1
      [] op = "Lit" -> 0

RECURSIVE Sum(_, _)
Sum(f, set) ==
    IF set = {} THEN 0
    ELSE LET x == CHOOSE y \in set : TRUE IN f[x] + Sum(f, set \ {x})

\* What the entries of `queue` add to the gradient of `node` when the
\* outputs' gradients are those of `after` and the values those of `before`.
Received(queue, node, before, after) ==
    LET uses == {p \in (1..Len(queue)) \X (1..MaxArity) :
                    /\ p[2] <= Len(queue[p[1]].inputs)
                    /\ queue[p[1]].inputs[p[2]] = node}
        part == [p \in uses |->
                    LET e == queue[p[1]] IN
                    Unwrap(after[e.output + 1].grad) *
                    Derivative(e.operation, p[2],
                               [i \in 1..Len(e.inputs) |-> before[e.inputs[i] + 1]])]
    IN  Sum(part, uses)

\* C10: backward() leaves every value as it was, sets the root's gradient
\* to the unit, and leaves in every other slot that has a gradient its
\* previous gradient plus what the entries that list the slot contribute.
AccumulationLaw ==
    [][(last'.call = "backward" /\ last'.result = "ok") =>
        LET before == G.nodes
            after == Unwrap(graph').nodes
        IN  \A s \in 1..Len(before) :
               /\ after[s].val = before[s].val
               /\ after[s].grad =
                     IF s = G.root + 1 THEN Some(1)
                     ELSE IF IsSome(before[s].grad)
                     THEN Some(Unwrap(before[s].grad)
                               + Received(G.backward, s - 1, before, after))
                     ELSE None]_vars

\* backward() has run twice with no zero_grads() between on the graph of
\* one multiplication: an input's gradient is twice the other input's value.
AccumulatedTwice ==
    /\ IsSome(graph)
    /\ last = Ok("backward")
    /\ Len(G.backward) = 1
    /\ G.backward[1].operation = "Mul"
    /\ \E k \in 1..2 :
          LET this == G.nodes[G.backward[1].inputs[k] + 1]
              other == G.nodes[G.backward[1].inputs[3 - k] + 1]
          IN  /\ other.val # 0
              /\ this.grad = Some(2 * other.val)

(***************************************************************************)
(* Properties of forward(), the stores and zero_grads().                   *)
(***************************************************************************)
ValuesOf(slots) == [i \in 1..Len(slots) |-> slots[i].val]

\* What forward() would leave in the slots of graph g and return.
ForwardOutcome(g) ==
    LET run == execute_forward(g.forward, g.nodes) IN
    [vals |-> ValuesOf(run.nodes), scalar |-> run.nodes[g.root + 1].val]

\* C11: forward(), backward() and zero_grads() leave what forward() leaves in
\* the slots and returns as it was, and forward() returns and leaves just
\* that: two calls of forward() with only these calls between return the
\* same scalar and leave the same value in every slot.
ForwardIdempotent ==
    [][(/\ IsSome(graph)
        /\ last'.call \in {"forward", "backward", "zero_grads"}
        /\ last'.result = "ok") =>
           /\ ForwardOutcome(Unwrap(graph')) = ForwardOutcome(G)
           /\ last'.call = "forward" =>
                 /\ last'.value = Some(ForwardOutcome(G).scalar)
                 /\ ValuesOf(Unwrap(graph').nodes) = ForwardOutcome(G).vals]_vars

\* forward() has returned a non-zero scalar on a graph that backward() ran
\* on before: gradients are left in the slots.
ForwardAfterBackward ==
    /\ IsSome(graph)
    /\ last.call = "forward"
    /\ last.result = "ok"
    /\ last.value # Some(0)
    /\ G.nodes[G.root + 1].grad = Some(1)
    /\ \E i \in 1..Len(G.nodes) :
          i # G.root + 1 /\ IsSome(G.nodes[i].grad) /\ G.nodes[i].grad # Some(0)

\* The slots of the graph of LineProgram, by the handle each call returned.
LineVal(g, node) == g.nodes[node + 1].val
LineGrad(g, node) == g.nodes[node + 1].grad

\* C12: on the graph (a * x + b) - y, forward() returns a * x + b - y of the
\* stored values, and zero_grads() followed by backward() leaves the
\* gradient x in the slot of a and the gradient 1 in the slot of b.
LineComputesAndDifferentiates ==
    [][/\ (last'.call = "forward" /\ Len(nodes) = Len(LineProgram)) =>
             last' = Returned("forward",
                              LineVal(G, 0) * LineVal(G, 2) + LineVal(G, 1) - LineVal(G, 3))
       /\ (last.call = "zero_grads" /\ last'.call = "backward"
             /\ Len(nodes) = Len(LineProgram)) =>
             /\ last' = Ok("backward")
             /\ LineGrad(Unwrap(graph'), 0) = Some(LineVal(G, 2))
             /\ LineGrad(Unwrap(graph'), 1) = Some(1)]_vars

\* a = 1, b = 0, x = 3, y = 2: forward() left 1 in the output slot, then
\* zero_grads() and backward() left the gradients 3 and 1 for a and b.
LineScenario ==
    /\ IsSome(graph)
    /\ Len(nodes) = Len(LineProgram)
    /\ last = Ok("backward")
    /\ LineVal(G, 0) = 1 /\ LineVal(G, 1) = 0
    /\ LineVal(G, 2) = 3 /\ LineVal(G, 3) = 2
    /\ LineVal(G, G.root) = 1
    /\ LineGrad(G, 0) = Some(3)
    /\ LineGrad(G, 1) = Some(1)

\* The nodes of `table` (the builder's inputs or weights) registered as id.
NamedIn(table, id) == {n \in table : At(n).id = Some(id)}

\* What a store of the value v under id through `table` has to do.
StoreOutcome(call, table, id, v) ==
    IF NamedIn(table, id) = {}
    THEN /\ last' = Panic(call, KeyPanic)
         /\ graph' = graph
         /\ builder' = builder
    ELSE /\ last' = Ok(call)
         /\ builder' = builder
         /\ IsSome(graph')
         /\ [Unwrap(graph') EXCEPT !.nodes = G.nodes] = G
         /\ \A i \in 1..Len(G.nodes) :
               Unwrap(graph').nodes[i] =
                   IF i - 1 \in NamedIn(table, id)
                   THEN [val |-> v, grad |-> G.nodes[i].grad]
                   ELSE G.nodes[i]

\* C13: store_input and store_weights write the forward value of the tensor
\* into the slot registered under id in their own table and change neither
\* that slot's gradient nor any other slot; with an id their own table does
\* not hold they panic and change nothing.
StoreCopiesValueOnly ==
    IsSome(graph) =>
        \A id \in Ids, v \in Values :
            /\ ~ENABLED (/\ store_input(id, From(v))
                         /\ ~StoreOutcome("store_input", inputs, id, v))
            /\ ~ENABLED (/\ store_weights(id, From(v))
                         /\ ~StoreOutcome("store_weights", weights, id, v))

\* store_weights has written into a slot that holds a non-zero gradient,
\* on a graph with another slot of non-zero value.
StoredOverGradient ==
    /\ IsSome(graph)
    /\ last = Ok("store_weights")
    /\ \E n \in weights :
          /\ G.nodes[n + 1].val \in Values
          /\ G.nodes[n + 1].grad \notin {None, Some(0)}
          /\ \E i \in 1..Len(G.nodes) : i # n + 1 /\ G.nodes[i].val # 0

\* C14: zero_grads() sets the gradient of every slot that has one to zero,
\* and changes no forward value, no queue, no name table and nothing of the
\* builder.
ZeroGradsResetsGradients ==
    [][last'.call = "zero_grads" =>
          /\ last' = Ok("zero_grads")
          /\ builder' = builder
          /\ IsSome(graph')
          /\ [Unwrap(graph') EXCEPT !.nodes = G.nodes] = G
          /\ \A i \in 1..Len(G.nodes) :
                /\ Unwrap(graph').nodes[i].val = G.nodes[i].val
                /\ Unwrap(graph').nodes[i].grad =
                       IF G.nodes[i].grad = None THEN None ELSE Some(0)]_vars

\* zero_grads() has run on a graph of three slots with gradients, where
\* forward() left non-zero values.
ZeroedAfterForward ==
    /\ IsSome(graph)
    /\ last = Ok("zero_grads")
    /\ Len(G.nodes) = 3
    /\ \A i \in 1..Len(G.nodes) : G.nodes[i].grad = Some(0) /\ G.nodes[i].val # 0

(***************************************************************************)
(* Properties of the builder's sets and of the sort.                       *)
(***************************************************************************)
\* C15: in a state with a built graph (the builder is as build() saw it),
\* every order the Kahn sweep can produce for the builder compiles to the
\* forward queue the graph holds: build() has one forward queue per builder
\* state.
SingleExecutionOrder ==
    IsSome(graph) =>
        \A run \in topological_sort_of_nodes :
            build_forward(run.sorted) = G.forward

NodeHandles == {i - 1 : i \in 1..Len(nodes)}
HasConsumer(n) == \E m \in NodeHandles : n \in Range(At(m).parent_nodes)

\* C16: the root set is the set of the nodes that no node has as a parent.
RootsAreTheSinks == roots = {n \in NodeHandles : ~HasConsumer(n)}

\* A failed create_result_of_operation on a builder of three or more nodes
\* with one root: two or more nodes have left the root set.
RootsAfterFailedCall ==
    /\ last.call = "create_result_of_operation"
    /\ last.result # "ok"
    /\ Len(nodes) >= 3
    /\ Cardinality(roots) = 1

\* C17: every run of the Kahn sweep on a reachable builder state visits
\* every node exactly once and leaves no edge, and build() never panics
\* with the cycle message.
SortVisitsEveryNode ==
    /\ \A run \in topological_sort_of_nodes :
          /\ run.set_of_edges = {}
          /\ Len(run.sorted) = Len(nodes)
          /\ Range(run.sorted) = NodeHandles
    /\ last # Panic("build", "GraphBuilder contains a cycle!")

\* C18: a node with parents is in neither inputs nor weights, and a node
\* without parents carries no parent operation.
ParentsSeparateLeavesFromResults ==
    \A n \in NodeHandles :
        /\ At(n).parent_nodes # <<>> => n \notin inputs \cup weights
        /\ At(n).parent_nodes = <<>> => ~IsOperationResult(n)

\* C19: the root of a built graph is the output of the last forward entry
\* and of the first backward entry.
RootEndsForwardStartsBackward ==
    IsSome(graph) =>
        /\ Len(G.forward) >= 1
        /\ G.forward[Len(G.forward)].output = G.root
        /\ Len(G.backward) >= 1
        /\ G.backward[1].output = G.root

(***************************************************************************)
(* Properties of the choice of order.                                      *)
(***************************************************************************)
\* The slots after forward(), then after zero_grads() and backward(), of a
\* graph with the queues fq and bq over the slots of the built graph.
ExecutionWith(fq, bq) ==
    LET fwd == execute_forward(fq, G.nodes)
        zeroed == [i \in 1..Len(fwd.nodes) |-> zero_grad(fwd.nodes[i])]
        seeded == [zeroed EXCEPT ![G.root + 1] = set_grad_to_unit(@)]
        bwd == execute_backward(bq, seeded)
    IN  [forward |-> fwd, backward |-> bwd]

\* C20: for the builder state and the slot values at hand, the queues of
\* every order the Kahn sweep can produce leave, after forward(), the values
\* and, after zero_grads() and backward(), the gradients that the queues of
\* the built graph leave.
ResultsIndependentOfOrder ==
    IsSome(graph) =>
        \A run \in topological_sort_of_nodes :
            ExecutionWith(build_forward(run.sorted), build_backward(run.sorted))
                = ExecutionWith(G.forward, G.backward)

\* backward() has left a non-zero gradient in the weight's slot of a graph
\* whose forward queue is not the one another order of the sweep gives.
OtherOrderExists ==
    /\ IsSome(graph)
    /\ last = Ok("backward")
    /\ \E run \in topological_sort_of_nodes : build_forward(run.sorted) # G.forward
    /\ G.nodes[G.root + 1].val # 0
    /\ \E n \in weights : G.nodes[n + 1].grad \notin {None, Some(0)}

(***************************************************************************)
(* Gradients after forward(), zero_grads(), backward().                    *)
(***************************************************************************)
GradsOf(slots) == [i \in 1..Len(slots) |-> slots[i].grad]

\* The slots of a graph just built from the builder, with the values the
\* leaf slots of g hold stored into it.
FreshSlots(g) ==
    [i \in 1..Len(nodes) |->
        LET fresh == New(nodes[i].vals, nodes[i].requires_grad) IN
        IF i - 1 \in inputs \cup weights
        THEN copy_values_into(g.nodes[i], fresh)
        ELSE fresh]

\* The gradients forward(), zero_grads(), backward() leave on such a graph
\* whose queues come from the order `sorted`.
FreshGradients(g, sorted) ==
    LET fwd == execute_forward(build_forward(sorted), FreshSlots(g))
        zeroed == [i \in 1..Len(fwd.nodes) |-> zero_grad(fwd.nodes[i])]
        seeded == [zeroed EXCEPT ![g.root + 1] = set_grad_to_unit(@)]
    IN  GradsOf(execute_backward(build_backward(sorted), seeded).nodes)

\* The values in the slots are the ones forward() leaves.
ForwardHasRun(g) == ValuesOf(g.nodes) = ForwardOutcome(g).vals

\* C21: a backward() that follows forward() and then zero_grads() leaves in
\* every slot the gradient that a freshly built graph holding the same leaf
\* values has after forward(), zero_grads(), backward(), whatever calls came
\* before.
GradientsAsOnFreshGraph ==
    [][(/\ IsSome(graph)
        /\ last.call = "zero_grads"
        /\ ForwardHasRun(G)
        /\ last'.call = "backward") =>
           /\ last' = Ok("backward")
           /\ \A run \in topological_sort_of_nodes :
                 GradsOf(Unwrap(graph').nodes) = FreshGradients(G, run.sorted)]_vars

\* backward() has left, on a graph of three slots holding stored values, the
\* gradients of a fresh graph, non-zero in a weight's slot.
FreshGradientsReached ==
    /\ IsSome(graph)
    /\ last = Ok("backward")
    /\ Len(G.nodes) = 3
    /\ ForwardHasRun(G)
    /\ \A run \in topological_sort_of_nodes :
          GradsOf(G.nodes) = FreshGradients(G, run.sorted)
    /\ \E n \in weights :
          /\ G.nodes[n + 1].val \in Values
          /\ G.nodes[n + 1].grad \notin {None, Some(0)}
====
